---- MODULE Spec2Model ----
(***************************************************************************)
(* Model of syncdbapp.py: the wxPython frame SyncDBFrame, its UI event     *)
(* handlers (main thread), the worker threads running run_task_logic, and  *)
(* the wx.CallAfter queue that carries the workers' UI updates back to the *)
(* main thread.                                                            *)
(*                                                                         *)
(* A worker step is the code between two reads of state another thread     *)
(* writes (stop_requested, run_scan, run_copy, run_evict, taskFiles).      *)
(* A UI handler runs to completion on the main thread and is one step.     *)
(***************************************************************************)
EXTENDS Integers, Sequences, FiniteSets, TLC

VARIABLES
    stop_requested,   \* self.stop_requested
    run_scan,         \* self.run_scan   (= cbScan.GetValue())
    run_copy,         \* self.run_copy   (= cbCopy.GetValue())
    run_evict,        \* self.run_evict  (= cbEvict.GetValue())
    btnRunAll,        \* self.btnRunAll.IsEnabled()
    btnStop,          \* self.btnStop.IsEnabled()
    taskBtns,         \* [task -> self.taskBtns[task-1].IsEnabled()]
    taskGauges,       \* [task -> self.taskGauges[task-1].GetValue()]
    taskFiles,        \* [task -> self.taskFiles[task-1]], a sequence of <<path, mtime>>
    taskConfigs,      \* [task -> self.taskConfigs[task-1]: its 'synced' and 'ignore']
    srcTree,          \* [task -> [name -> the entry of that name under the task's source]]
    tgtMtime,         \* [task -> [path -> mtime of the target file, NoFile if absent]]
    now,              \* time.time(), in clock ticks
    env,              \* the evictor ./cloudfile and the target file system, as stubs
    calls,            \* pending wx.CallAfter callbacks, in posting order: a sequence
                      \* of batches, each the callbacks one worker step posted
    workers,          \* [thread slot -> the thread's local state]
    taskSizers,       \* [task -> the stamp in the label of the task's static box,
                      \* self.taskSizers[task-1].GetStaticBox().GetLabel()]
    frame,            \* "shown" once __init__ has returned, "destroyed" after Destroy()
    cfgFile           \* config.yaml: whether it can be read and written, the tasks
                      \* it holds, and whether save_tasks_to_config has raised

vars == <<stop_requested, run_scan, run_copy, run_evict, btnRunAll, btnStop,
          taskBtns, taskGauges, taskFiles, taskConfigs, srcTree,
          tgtMtime, now, env, calls, workers, taskSizers, frame, cfgFile>>

flagVars == <<run_scan, run_copy, run_evict>>
btnVars  == <<btnRunAll, btnStop, taskBtns>>
fsVars   == <<srcTree, tgtMtime, now, env>>
appVars  == <<taskSizers, frame, cfgFile>>

-----------------------------------------------------------------------------
(* Bounds of the model *)

\* worker threads alive at the same time
MaxWorkers == 2
\* worker steps whose wx.CallAfter callbacks are pending at the same time
MaxCalls == 1
\* clock ticks per second: file times have sub-second resolution, the
\* 'synced' stamp ("%Y-%m-%d %H:%M:%S") has whole seconds
TicksPerSecond == 2
\* seconds the clock runs to
MaxSeconds == 2

-----------------------------------------------------------------------------
(* The configuration (config.yaml) and the source trees *)

\* range(1, len(self.taskBtns) + 1): one row and one button per configured task
Tasks == DOMAIN taskConfigs
\* the slots of the worker threads
Slots == DOMAIN workers

\* 'synced' missing from the task's entry, or empty
NoStamp == -1
\* os.path.exists(target_path) is False
NoFile  == -1

\* File and directory names are sequences of characters.
NameA   == <<"a">>
NameB   == <<"b">>
NameSub == <<"s">>
Root    == <<"/">>
Names   == {Root, NameA, NameB, NameSub}
Files   == {NameA, NameB}

\* One entry of a source tree, as os.lstat / os.listdir / os.stat see it.
\* mode "gone": os.lstat raises. readable = FALSE: os.listdir of the directory
\* raises, or os.stat of the regular file raises.
\* Kept beside them, for the properties, note is what has happened to a file
\* since a scan last looked at it: "seen" nothing, "changed" it was written,
\* "failed" its copy raised, and "owed_changed" / "owed_failed" the same with
\* the task's 'synced' stamp stored since.
DirNode(entries) ==
    [mode |-> "dir", entries |-> entries, readable |-> TRUE, mtime |-> 0, ctime |-> 0,
     note |-> "seen"]
FileNode(m, c) ==
    [mode |-> "file", entries |-> <<>>, readable |-> TRUE, mtime |-> m, ctime |-> c,
     note |-> "seen"]

\* source/ holds a regular file and a subdirectory with one regular file
DeepTree ==
    [nm \in Names |->
        IF nm = Root THEN DirNode(<<NameA, NameSub>>)
        ELSE IF nm = NameSub THEN DirNode(<<NameB>>)
        ELSE FileNode(1, 1)]

\* source/ holds two regular files
FlatTree ==
    [nm \in Names |->
        IF nm = Root THEN DirNode(<<NameA, NameB>>)
        ELSE IF nm = NameSub THEN DirNode(<<>>)
        ELSE FileNode(1, 1)]

\* source/ is empty
EmptyTree == [FlatTree EXCEPT ![Root].entries = <<>>]

\* Names with upper and lower case, for the ignore rules
NameTa == <<"T", "a">>
NameAb == <<"a", "B">>
ScanNames == {Root, NameSub, NameTa, NameAb}
ScanFiles == {NameTa, NameAb}

\* source/ holds the subdirectory s, with the file aB, and after it the file
\* Ta; ta and ab are the files' <<mtime, ctime>>, listable is FALSE when
\* os.listdir(source/s) raises
ScanTree(ta, ab, listable) ==
    [nm \in ScanNames |->
        IF nm = Root THEN DirNode(<<NameSub, NameTa>>)
        ELSE IF nm = NameSub
             THEN [DirNode(<<NameAb>>) EXCEPT !.readable = listable]
        ELSE IF nm = NameTa THEN FileNode(ta[1], ta[2])
        ELSE FileNode(ab[1], ab[2])]

\* source/ holds the file aB, the entry s and the file Ta, in this order;
\* fault "stat": os.stat(source/aB) raises; fault "lstat": os.lstat(source/s)
\* raises (the entry was removed after the listing); fault "none": neither
Faults == {"none", "stat", "lstat"}
FaultTree(fault) ==
    [nm \in ScanNames |->
        IF nm = Root THEN DirNode(<<NameAb, NameSub, NameTa>>)
        ELSE IF nm = NameSub
             THEN [DirNode(<<>>) EXCEPT
                     !.mode = IF fault = "lstat" THEN "gone" ELSE "dir"]
        ELSE IF nm = NameAb
             THEN [FileNode(1, 1) EXCEPT !.readable = (fault # "stat")]
        ELSE FileNode(1, 1)]

\* <<st_mtime, st_ctime>> of a file, in clock ticks
FileTimes == {<<1, 1>>, <<4, 1>>, <<1, 5>>}

\* the 'ignore' lists of a task: a sequence of rules, each with 'startswith'
\* and/or 'endswith' patterns
IgnoreConfigs ==
    << <<>>,
       << [startswith |-> << <<"t">> >>] >>,
       << [endswith |-> << <<"B">> >>] >>,
       << [startswith |-> << <<"x">> >>, endswith |-> << <<"S">> >>] >>,
       << [startswith |-> << <<"T", "a", "b">> >>],
          [endswith |-> << <<"a">>, <<"a", "b">> >>] >> >>

\* strftime("%Y-%m-%d %H:%M:%S", localtime()): the clock cut to whole seconds
FormatTime(t) == t \div TicksPerSecond
\* mktime(strptime(s, "%Y-%m-%d %H:%M:%S")): the start of that second
ParseTime(s) == s * TicksPerSecond

-----------------------------------------------------------------------------
(* should_ignore, syncdbapp.py 404-416 *)

\* str.lower() on one character
LowerChar(c) ==
    CASE c = "A" -> "a" [] c = "B" -> "b" [] c = "S" -> "s"
      [] c = "T" -> "t" [] OTHER -> c
Lower(str) == [i \in 1..Len(str) |-> LowerChar(str[i])]

\* str.startswith / str.endswith
StartsWith(str, pat) ==
    /\ Len(pat) <= Len(str)
    /\ SubSeq(str, 1, Len(pat)) = pat
EndsWith(str, pat) ==
    /\ Len(pat) <= Len(str)
    /\ SubSeq(str, Len(str) - Len(pat) + 1, Len(str)) = pat

\* rule.get('startswith', []) / rule.get('endswith', [])
RuleGet(rule, key) == IF key \in DOMAIN rule THEN rule[key] ELSE <<>>

\* A filter that compares the patterns with the name as it is written
should_ignore_cased(ignore_config, filename) ==
    \E r \in 1..Len(ignore_config) :
       \/ \E p \in 1..Len(RuleGet(ignore_config[r], "startswith")) :
             StartsWith(filename, RuleGet(ignore_config[r], "startswith")[p])
       \/ \E p \in 1..Len(RuleGet(ignore_config[r], "endswith")) :
             EndsWith(filename, RuleGet(ignore_config[r], "endswith")[p])

should_ignore(ignore_config, filename) ==
    LET fl == Lower(filename)
        cfg == ignore_config
    IN \E r \in 1..Len(cfg) :
          \/ \E p \in 1..Len(RuleGet(cfg[r], "startswith")) :
                StartsWith(fl, Lower(RuleGet(cfg[r], "startswith")[p]))
          \/ \E p \in 1..Len(RuleGet(cfg[r], "endswith")) :
                EndsWith(fl, Lower(RuleGet(cfg[r], "endswith")[p]))

-----------------------------------------------------------------------------
(* Worker threads and the wx.CallAfter queue *)

\* A thread slot holding no thread. The fields are run_task_logic's locals and
\* those of the functions it calls. Kept beside them, for the properties:
\* walk_ok is what walktree returned, cut that the pipeline returned at 513,
\* fresh the paths this run copied, evict_calls and evict_errors the number,
\* per target path, of the evictor's invocations and of the logged eviction
\* errors of this run, stop_hit that Stop was clicked while the thread ran,
\* at_launch the stage flags when the handler started the thread.
\* stamp is the string that strftime has returned at 367 and that is about to
\* be stored.
FreeWorker ==
    [task |-> 0, pc |-> "free", stack |-> <<>>, last_run |-> 0, walk_ok |-> TRUE,
     n |-> 0, live |-> TRUE, lst |-> <<>>, idx |-> 0, cut |-> FALSE,
     copied |-> 0, evicted |-> 0, retry |-> <<>>, ridx |-> 0,
     fresh |-> {}, evict_calls |-> <<>>, evict_errors |-> <<>>,
     stop_hit |-> FALSE, stamp |-> 0,
     at_launch |-> [scan |-> FALSE, copy |-> FALSE, evict |-> FALSE]]

\* threading.Thread(target=self.run_task_logic, args=(task_id,)).start()
NewWorker(task_id) ==
    [FreeWorker EXCEPT !.task = task_id, !.pc = "start",
                       !.at_launch = [scan |-> run_scan, copy |-> run_copy,
                                      evict |-> run_evict]]

FreeSlots(ws) == {w \in Slots : ws[w].pc = "free"}
LowestFree(ws) == CHOOSE w \in FreeSlots(ws) : \A v \in FreeSlots(ws) : w <= v

\* wx.CallAfter(fn, arg) of a widget or handler of one task
Call(fn, task, arg) == [fn |-> fn, task |-> task, arg |-> arg]
CanPost == Len(calls) < MaxCalls
Post(batch) == Append(calls, batch)

\* the thread of slot w returns from run_task_logic (or dies of an exception)
Finish(w) == [workers EXCEPT ![w] = FreeWorker]

-----------------------------------------------------------------------------
(* run_task_logic, syncdbapp.py 326-377: the worker thread *)

\* 329-334: the unit reads run_scan; with scan off the function falls through
\* to its end and posts nothing.
StartStep(w) ==
    LET me == workers[w] IN
    /\ me.pc = "start"
    /\ IF run_scan
       THEN /\ CanPost
            /\ calls' = Post(<<Call("SetLabel", me.task, "Scanning")>>)
            /\ workers' = [workers EXCEPT ![w].pc = "scan_begin"]
       ELSE /\ calls' = calls
            /\ workers' = Finish(w)
    /\ UNCHANGED <<appVars, stop_requested, flagVars, btnVars, taskGauges,
                   taskFiles, taskConfigs, fsVars>>

\* self.taskFiles[task_id-1] = [] binds a new list: a thread of the same task
\* that is iterating the old list keeps the old list, which no one appends to
\* any more.
Rebound(ws, task) ==
    [v \in Slots |->
        IF ws[v].task = task /\ ws[v].pc = "pipe_loop" /\ ws[v].live
        THEN [ws[v] EXCEPT !.live = FALSE, !.lst = taskFiles[task]]
        ELSE ws[v]]

\* os.listdir(topdir); when it raises, the except clause of walktree returns
\* True, as the end of an empty listing does
Entries(task, dir) ==
    IF srcTree[task][dir].readable THEN srcTree[task][dir].entries ELSE <<>>

\* walktree returns True from every level whose listing is used up
RECURSIVE Settle(_, _)
Settle(task, stack) ==
    IF stack = <<>> THEN <<>>
    ELSE LET top == stack[Len(stack)] IN
         IF top.i > Len(Entries(task, top.dir))
         THEN Settle(task, SubSeq(stack, 1, Len(stack) - 1))
         ELSE stack

\* 471-474: walktree returned True; the scan returns the length of the list
ScanReturns(me, files) ==
    [me EXCEPT !.pc = "after_scan", !.stack = <<>>, !.walk_ok = TRUE,
               !.n = Len(files)]

\* A scan that, interrupted, reports the candidates it had found so far
ScanCancelledPartial(me) ==
    [me EXCEPT !.pc = "after_scan", !.stack = <<>>, !.walk_ok = FALSE,
               !.n = Len(taskFiles[me.task])]

\* 475-478: walktree returned False; the list is reset and the scan returns 0
ScanCancelled(me) ==
    [me EXCEPT !.pc = "after_scan", !.stack = <<>>, !.walk_ok = FALSE, !.n = 0]

Walking(me, stack, files) ==
    IF stack = <<>> THEN ScanReturns(me, files)
    ELSE [me EXCEPT !.pc = "walk", !.stack = stack]

\* 393-402 and the call of walktree at 471
ScanBegin(w) ==
    LET me == workers[w]
        t  == me.task
        cfg == taskConfigs[t]
    IN
    /\ me.pc = "scan_begin"
    /\ taskFiles' = [taskFiles EXCEPT ![t] = <<>>]
    /\ IF cfg.synced = NoStamp
       THEN \* 398: KeyError / ValueError ends the thread
            workers' = [Rebound(workers, t) EXCEPT ![w] = FreeWorker]
       ELSE workers' = [Rebound(workers, t) EXCEPT ![w] =
                Walking([me EXCEPT !.last_run = ParseTime(cfg.synced)],
                        Settle(t, <<[dir |-> Root, i |-> 1]>>), <<>>)]
    /\ UNCHANGED <<appVars, stop_requested, flagVars, btnVars, taskGauges,
                   taskConfigs, fsVars, calls>>

\* A callback that looks at the modification time only
file_to_sync_mtime_only(files, node, name, last_run) ==
    IF node.mtime > last_run
    THEN Append(files, <<name, node.mtime>>)
    ELSE files

\* file_to_sync, 461-468: the list after the callback for one regular file
file_to_sync(files, node, name, last_run) ==
    IF node.mtime > last_run \/ node.ctime > last_run
    THEN Append(files, <<name, node.mtime>>)
    ELSE files

\* A walk in which an error listing a subdirectory leaves the caller's loop too
DescendOrLeave(task, stack, name) ==
    IF srcTree[task][name].readable
    THEN Append(stack, [dir |-> name, i |-> 1])
    ELSE SubSeq(stack, 1, Len(stack) - 1)

\* 442: walktree(pathname, callback), a new level of the walk; when its
\* os.listdir raises, its own except clause returns True to this level
Descend(task, stack, name) == Append(stack, [dir |-> name, i |-> 1])

\* walktree, 418-459: one iteration of the loop at the innermost level.
\* Gauge.Pulse (431) changes no state kept here.
WalkStep(w) ==
    LET me    == workers[w]
        t     == me.task
        depth == Len(me.stack)
        top   == me.stack[depth]
        name  == Entries(t, top.dir)[top.i]
        node  == srcTree[t][name]
        \* the loop goes on with the next entry of this listing
        next  == [me.stack EXCEPT ![depth].i = top.i + 1]
        \* an exception leaves the loop of this level: 456-459 return True
        leave == SubSeq(me.stack, 1, depth - 1)
        ignored == should_ignore(taskConfigs[t].ignore, name)
    IN
    /\ me.pc = "walk"
    /\ IF stop_requested
       THEN \* 427-428, then 442-443 at every level above, then 475-478
            /\ taskFiles' = [taskFiles EXCEPT ![t] = <<>>]
            /\ workers' = [Rebound(workers, t) EXCEPT ![w] = ScanCancelled(me)]
       ELSE LET files == IF node.mode = "file" /\ ~ignored /\ node.readable
                         THEN file_to_sync(taskFiles[t], node, name, me.last_run)
                         ELSE taskFiles[t]
                stack == CASE node.mode = "gone" -> leave
                           [] node.mode = "dir" ->
                                IF ignored THEN next
                                ELSE Descend(t, next, name)
                           [] node.mode = "file" ->
                                IF ignored \/ node.readable THEN next ELSE leave
                           [] OTHER -> next
            IN /\ taskFiles' = [taskFiles EXCEPT ![t] = files]
               /\ workers' = [workers EXCEPT ![w] =
                                Walking(me, Settle(t, stack), files)]
    /\ srcTree' = IF ~stop_requested /\ node.mode = "file" /\ ~ignored
                      /\ node.readable
                   THEN [srcTree EXCEPT ![t][name].note = "seen"]
                   ELSE srcTree
    /\ UNCHANGED <<appVars, stop_requested, flagVars, btnVars, taskGauges,
                   taskConfigs, tgtMtime, now, env, calls>>

\* 337-355: what follows the scan
AfterScan(w) ==
    LET me == workers[w]
        t  == me.task
    IN
    /\ me.pc = "after_scan"
    /\ IF me.n = 0
       THEN \* 337-343
            /\ CanPost
            /\ calls' = Post(
                 << Call("on_task_stopped", t, 0),
                    Call("SetLabel", t, IF stop_requested THEN "ScanCancelled"
                                                          ELSE "NoFiles") >>)
            /\ workers' = Finish(w)
       ELSE IF run_copy
       THEN \* 345-355; Gauge.SetRange (347) changes no state kept here
            /\ CanPost
            /\ calls' = Post(
                 << Call("SetLabel", t, IF ~run_evict THEN "Copying"
                                                      ELSE "CopyingEvicting") >>)
            /\ workers' = [workers EXCEPT ![w].pc = "pipe_begin"]
       ELSE \* 375-377
            /\ CanPost
            /\ calls' = Post(
                 << Call("on_task_complete", t, 0),
                    Call("SetLabel", t, "ScanCompleted") >>)
            /\ workers' = Finish(w)
    /\ UNCHANGED <<appVars, stop_requested, flagVars, btnVars, taskGauges,
                   taskFiles, taskConfigs, fsVars>>

-----------------------------------------------------------------------------
(* sync_to_target_and_evict, syncdbapp.py 480-578 *)

\* subprocess.run(['./cloudfile', 'evict', target_path], timeout=5, check=True)
\* under a stub of the evictor; calls_before counts the earlier invocations
\* for this path in this run. "fail" is TimeoutExpired or CalledProcessError,
\* "error" any other exception (the executable is missing).
EvictResult(script, calls_before) ==
    CASE script = "ok"          -> "ok"
      [] script = "fail_first"  -> IF calls_before = 0 THEN "fail" ELSE "ok"
      [] script = "fail_always" -> "fail"
      [] OTHER                  -> "error"

\* the list the for loop of 508 iterates
CurList(me) == IF me.live THEN taskFiles[me.task] ELSE me.lst

\* 559: the retry loop goes on, or 577-578 the function returns
RetryNext(me) ==
    IF me.ridx > Len(me.retry) THEN [me EXCEPT !.pc = "after_pipe"]
    ELSE [me EXCEPT !.pc = "retry_loop"]

\* 508: the main loop goes on, or the retry pass starts
LoopNext(me, list) ==
    IF me.idx > Len(list) THEN RetryNext([me EXCEPT !.ridx = 1])
    ELSE [me EXCEPT !.pc = "pipe_loop"]

\* 494-508
PipeBegin(w) ==
    LET me == workers[w] IN
    /\ me.pc = "pipe_begin"
    /\ workers' = [workers EXCEPT ![w] =
         IF ~run_copy
         THEN [me EXCEPT !.pc = "after_pipe", !.copied = 0, !.evicted = 0]
         ELSE LoopNext([me EXCEPT !.copied = 0, !.evicted = 0, !.retry = <<>>,
                                  !.idx = 1, !.live = TRUE, !.fresh = {},
                                  !.evict_calls = [p \in Files |-> 0],
                                  !.evict_errors = [p \in Files |-> 0]],
                       taskFiles[me.task])]
    /\ UNCHANGED <<appVars, stop_requested, flagVars, btnVars, taskGauges,
                   taskFiles, taskConfigs, fsVars, calls>>

\* A copy decision that also copies a candidate as old as its target
NeedsCopyOrEqual(source_mtime, target_mtime) ==
    target_mtime = NoFile \/ source_mtime >= target_mtime

\* 530: copy iff the target is missing or the candidate is newer
NeedsCopy(source_mtime, target_mtime) ==
    target_mtime = NoFile \/ source_mtime > target_mtime

\* A copy after which a failed eviction is not put on the retry list
CopiedNoRetry(me, path) ==
    LET c == [me EXCEPT !.copied = @ + 1, !.fresh = @ \cup {path}] IN
    IF ~run_evict THEN c
    ELSE LET res == EvictResult(env.evictor[path], me.evict_calls[path])
             e   == [c EXCEPT !.evict_calls[path] = @ + 1]
         IN CASE res = "ok"   -> [e EXCEPT !.evicted = @ + 1]
              [] res = "fail" -> [e EXCEPT !.evict_errors[path] = @ + 1]
              [] OTHER        -> e

\* A copy after which a failed eviction is counted as an eviction
CopiedEvictCounted(me, path) ==
    LET c == [me EXCEPT !.copied = @ + 1, !.fresh = @ \cup {path}] IN
    IF ~run_evict THEN c
    ELSE LET res == EvictResult(env.evictor[path], me.evict_calls[path])
             e   == [c EXCEPT !.evict_calls[path] = @ + 1]
         IN CASE res = "ok"   -> [e EXCEPT !.evicted = @ + 1]
              [] res = "fail" -> [e EXCEPT !.evicted = @ + 1,
                                           !.retry = Append(@, path),
                                           !.evict_errors[path] = @ + 1]
              [] OTHER        -> e

\* 536-554: the counters after a copy that succeeded
Copied(me, path) ==
    LET c == [me EXCEPT !.copied = @ + 1, !.fresh = @ \cup {path}] IN
    IF ~run_evict THEN c
    ELSE LET res == EvictResult(env.evictor[path], me.evict_calls[path])
             e   == [c EXCEPT !.evict_calls[path] = @ + 1]
         IN CASE res = "ok"   -> [e EXCEPT !.evicted = @ + 1]
              [] res = "fail" -> [e EXCEPT !.retry = Append(@, path),
                                           !.evict_errors[path] = @ + 1]
              [] OTHER        -> e

\* A copy error that is counted as a copy
CopyFailedCounted(me, list) == LoopNext([me EXCEPT !.copied = @ + 1], list)

\* 555-556: os.makedirs, os.path.getmtime or shutil.copy2 raised; the error
\* is logged and the loop goes on
CopyFailed(me, list) == LoopNext(me, list)

\* 508-556: one iteration of the main loop
PipeStep(w) ==
    LET me   == workers[w]
        t    == me.task
        list == CurList(me)
        path == list[me.idx][1]
        source_mtime == list[me.idx][2]
        on   == [me EXCEPT !.idx = @ + 1]
    IN
    /\ me.pc = "pipe_loop"
    /\ IF stop_requested
       THEN \* 511-513
            /\ workers' = [workers EXCEPT ![w] =
                             [me EXCEPT !.pc = "after_pipe", !.cut = TRUE]]
            /\ UNCHANGED <<calls, tgtMtime, srcTree>>
       ELSE /\ CanPost
            /\ calls' = Post(<<Call("SetValue", t, me.idx)>>)
            /\ IF ~NeedsCopy(source_mtime, tgtMtime[t][path])
               THEN /\ workers' = [workers EXCEPT ![w] = LoopNext(on, list)]
                    /\ UNCHANGED <<tgtMtime, srcTree>>
               ELSE IF path \in env.copy_fails
               THEN /\ workers' = [workers EXCEPT ![w] = CopyFailed(on, list)]
                    /\ srcTree' = [srcTree EXCEPT ![t][path].note = "failed"]
                    /\ UNCHANGED tgtMtime
               ELSE \* copy2 gives the target the source's times
                    /\ tgtMtime' = [tgtMtime EXCEPT ![t][path] = srcTree[t][path].mtime]
                    /\ workers' = [workers EXCEPT ![w] =
                                     LoopNext(Copied(on, path), list)]
                    /\ UNCHANGED srcTree
    /\ UNCHANGED <<appVars, stop_requested, flagVars, btnVars, taskGauges,
                   taskFiles, taskConfigs, now, env>>

\* A retry iteration that does not count the eviction that succeeded
RetryStepUncounted(w) ==
    LET me   == workers[w]
        path == me.retry[me.ridx]
        e    == [me EXCEPT !.ridx = @ + 1, !.evict_calls[path] = @ + 1]
    IN
    /\ me.pc = "retry_loop"
    /\ workers' = [workers EXCEPT ![w] = RetryNext(
         IF EvictResult(env.evictor[path], me.evict_calls[path]) = "fail"
         THEN [e EXCEPT !.evict_errors[path] = @ + 1]
         ELSE e)]
    /\ UNCHANGED <<appVars, stop_requested, flagVars, btnVars, taskGauges,
                   taskFiles, taskConfigs, fsVars, calls>>

\* 559-575: one iteration of the retry loop.
\* Gauge.Pulse (561) changes no state kept here.
RetryStep(w) ==
    LET me   == workers[w]
        path == me.retry[me.ridx]
        res  == EvictResult(env.evictor[path], me.evict_calls[path])
        e    == [me EXCEPT !.ridx = @ + 1, !.evict_calls[path] = @ + 1]
    IN
    /\ me.pc = "retry_loop"
    /\ workers' = [workers EXCEPT ![w] = RetryNext(
         CASE res = "ok"   -> [e EXCEPT !.evicted = @ + 1]
           [] res = "fail" -> [e EXCEPT !.evict_errors[path] = @ + 1]
           [] OTHER        -> e)]
    /\ UNCHANGED <<appVars, stop_requested, flagVars, btnVars, taskGauges,
                   taskFiles, taskConfigs, fsVars, calls>>

\* 358-367: what follows the pipeline, up to the evaluation of the right-hand
\* side of 367
AfterPipe(w) ==
    LET me == workers[w]
        t  == me.task
    IN
    /\ me.pc = "after_pipe"
    /\ IF me.copied = 0 \/ stop_requested
       THEN \* 358-364
            /\ CanPost
            /\ calls' = Post(
                 << Call("on_task_stopped", t, 0),
                    Call("SetLabel", t, IF stop_requested THEN "SyncCancelled"
                                                          ELSE "NoneCopied") >>)
            /\ workers' = Finish(w)
       ELSE \* 367: time.strftime("%Y-%m-%d %H:%M:%S", time.localtime())
            /\ calls' = calls
            /\ workers' = [workers EXCEPT ![w].pc = "stamp",
                                          ![w].stamp = FormatTime(now)]
    /\ UNCHANGED <<appVars, stop_requested, flagVars, btnVars, taskGauges,
                   taskFiles, taskConfigs, fsVars>>

\* the notes of a task's source files once its 'synced' stamp is stored
Stamped(tree) ==
    [nm \in DOMAIN tree |->
        CASE tree[nm].note = "changed" -> [tree[nm] EXCEPT !.note = "owed_changed"]
          [] tree[nm].note = "failed"  -> [tree[nm] EXCEPT !.note = "owed_failed"]
          [] OTHER -> tree[nm]]

\* 367-373: the string is stored as the task's 'synced', this thread sets
\* the label of the task's static box (368-370), and the unit ends
StampStep(w) ==
    LET me == workers[w]
        t  == me.task
    IN
    /\ me.pc = "stamp"
    /\ CanPost
    /\ taskConfigs' = [taskConfigs EXCEPT ![t].synced = me.stamp]
    /\ taskSizers' = [taskSizers EXCEPT ![t] = me.stamp]
    /\ srcTree' = [srcTree EXCEPT ![t] = Stamped(@)]
    /\ calls' = Post(
         << Call("on_task_complete", t, 0),
            Call("SetLabel", t, "SyncCompleted") >>)
    /\ workers' = Finish(w)
    /\ UNCHANGED <<frame, cfgFile, stop_requested, flagVars, btnVars, taskGauges,
                   taskFiles, tgtMtime, now, env>>

\* another program writes a source file: its st_mtime and st_ctime are the
\* time of the write
Touch(task, name) ==
    /\ srcTree[task][name].mode = "file"
    /\ srcTree[task][name].mtime < now
    /\ srcTree' = [srcTree EXCEPT ![task][name].mtime = now,
                                  ![task][name].ctime = now,
                                  ![task][name].note = "changed"]
    /\ UNCHANGED <<appVars, stop_requested, flagVars, btnVars, taskGauges,
                   taskFiles, taskConfigs, tgtMtime, now, env, calls, workers>>

\* time passes
Tick ==
    /\ now < MaxSeconds * TicksPerSecond
    /\ now' = now + 1
    /\ UNCHANGED <<appVars, stop_requested, flagVars, btnVars, taskGauges,
                   taskFiles, taskConfigs, srcTree, tgtMtime, env, calls,
                   workers>>

-----------------------------------------------------------------------------
(* UI event handlers, main thread *)

Launch(ws, task_id) == [ws EXCEPT ![LowestFree(ws)] = NewWorker(task_id)]

\* 285-296: for task_id in range(1, len(self.taskBtns) + 1)
RECURSIVE LaunchFrom(_, _)
LaunchFrom(ws, task_id) ==
    IF task_id \notin Tasks THEN ws
    ELSE LaunchFrom(Launch(ws, task_id), task_id + 1)

\* 279-300: click on Run All
on_launch_all_tasks ==
    /\ btnRunAll
    /\ Cardinality(FreeSlots(workers)) >= Cardinality(Tasks)
    /\ stop_requested' = FALSE
    /\ workers' = LaunchFrom(workers, 1)
    /\ taskBtns' = [t \in Tasks |-> FALSE]
    /\ btnRunAll' = FALSE
    /\ btnStop' = TRUE
    /\ UNCHANGED <<appVars, flagVars, taskGauges, taskFiles, taskConfigs, fsVars, calls>>

\* 302-324: click on the Run button of one task
on_launch_task(task_id) ==
    /\ taskBtns[task_id]
    /\ FreeSlots(workers) # {}
    /\ stop_requested' = FALSE
    /\ workers' = Launch(workers, task_id)
    /\ taskBtns' = [taskBtns EXCEPT ![task_id] = FALSE]
    /\ btnRunAll' = FALSE
    /\ btnStop' = TRUE
    /\ UNCHANGED <<appVars, flagVars, taskGauges, taskFiles, taskConfigs, fsVars, calls>>

\* 598-623: click on a checkbox; cb.IsChecked() is the toggled value
on_checkbox(cb) ==
    /\ frame = "shown"
    /\ CASE cb = "Scan" ->
              /\ run_scan' = ~run_scan
              /\ run_copy' = IF run_scan THEN FALSE ELSE run_copy
              /\ run_evict' = IF run_scan THEN FALSE ELSE run_evict
         [] cb = "Copy" ->
              /\ run_copy' = ~run_copy
              /\ run_scan' = IF ~run_copy THEN TRUE ELSE run_scan
              /\ run_evict' = IF ~run_copy THEN run_evict ELSE FALSE
         [] cb = "Evict" ->
              /\ run_evict' = ~run_evict
              /\ run_copy' = IF ~run_evict THEN TRUE ELSE run_copy
              /\ run_scan' = run_scan
    /\ UNCHANGED <<appVars, stop_requested, btnVars, taskGauges, taskFiles,
                   taskConfigs, fsVars, calls, workers>>

\* 625-627: click on Stop
on_stop_button_click ==
    /\ btnStop
    /\ stop_requested' = TRUE
    /\ workers' = [w \in Slots |->
                     IF workers[w].pc = "free" THEN workers[w]
                     ELSE [workers[w] EXCEPT !.stop_hit = TRUE]]
    /\ UNCHANGED <<appVars, flagVars, btnVars, taskGauges, taskFiles,
                   taskConfigs, fsVars, calls>>

\* 581-590: on_task_complete, and on_task_stopped which calls it
on_task_complete(task_id) ==
    /\ taskBtns' = [taskBtns EXCEPT ![task_id] = TRUE]
    /\ btnRunAll' = TRUE
    /\ btnStop' = FALSE
    /\ taskGauges' = [taskGauges EXCEPT ![task_id] = 0]

\* the main loop runs the oldest pending wx.CallAfter callback
Deliver ==
    /\ calls # <<>>
    /\ LET c == Head(Head(calls)) IN
       CASE c.fn \in {"on_task_complete", "on_task_stopped"} ->
              on_task_complete(c.task)
         [] c.fn = "SetLabel" ->
              \* the text of the status line is not kept as state
              UNCHANGED <<btnVars, taskGauges>>
         [] c.fn = "SetValue" ->
              /\ taskGauges' = [taskGauges EXCEPT ![c.task] = c.arg]
              /\ UNCHANGED btnVars
    /\ calls' = IF Len(Head(calls)) = 1 THEN Tail(calls)
                 ELSE <<Tail(Head(calls))>> \o Tail(calls)
    /\ UNCHANGED <<appVars, stop_requested, flagVars, taskFiles, taskConfigs, fsVars,
                   workers>>

-----------------------------------------------------------------------------
(* The task registry, syncdbapp.py 174-207, and the shutdown path, 629-639 *)

\* config.yaml: "ok" can be read and written, "missing" does not exist,
\* "unparsable" exists but yaml.safe_load raises, "unwritable" can be read but
\* open(config_path, 'w') raises
ConfigStates == {"ok", "missing", "unparsable", "unwritable"}

\* A load without the except clause of 189-191
load_tasks_unguarded(file) ==
    IF file.status \in {"missing", "unparsable"}
    THEN [raised |-> TRUE, tasks |-> <<>>]
    ELSE [raised |-> FALSE, tasks |-> file.tasks]

\* 174-191: for a missing file 177-179 log (and set the misspelt attribute
\* tasksConfigs), then open raises inside the try; for an unparsable one
\* yaml.safe_load raises; the except clause sets taskConfigs to []
load_tasks_from_config(file) ==
    IF file.status \in {"missing", "unparsable"}
    THEN [raised |-> FALSE, tasks |-> <<>>]
    ELSE [raised |-> FALSE, tasks |-> file.tasks]

\* 194-207: the file after save_tasks_to_config, and whether it raised
save_tasks_to_config(file) ==
    IF file.status = "missing" THEN [file EXCEPT !.raised = TRUE]       \* 197-199
    ELSE IF file.status = "unwritable" THEN [file EXCEPT !.raised = TRUE] \* 205-207
    ELSE [file EXCEPT !.status = "ok", !.tasks = taskConfigs]

\* 634-639: the window is closed. When save_tasks_to_config raises, the
\* handler ends there and Destroy() is not reached. Destroy() of the only
\* frame ends the main loop and the process: widgets, pending callbacks and
\* the daemon threads are gone.
on_close ==
    LET saved == save_tasks_to_config(cfgFile) IN
    /\ frame = "shown"
    /\ stop_requested' = TRUE
    /\ cfgFile' = saved
    /\ IF saved.raised
       THEN /\ frame' = frame
            /\ workers' = [w \in Slots |->
                             IF workers[w].pc = "free" THEN workers[w]
                             ELSE [workers[w] EXCEPT !.stop_hit = TRUE]]
            /\ UNCHANGED <<btnVars, calls>>
       ELSE /\ frame' = "destroyed"
            /\ workers' = [w \in Slots |-> FreeWorker]
            /\ calls' = <<>>
            /\ btnRunAll' = FALSE
            /\ btnStop' = FALSE
            /\ taskBtns' = [t \in Tasks |-> FALSE]
    /\ UNCHANGED <<flagVars, taskGauges, taskSizers, taskFiles, taskConfigs,
                   fsVars>>

\* 629-632: click on Quit; self.Close() runs on_close
on_quit_button_click == on_close

-----------------------------------------------------------------------------
(* The application *)

Scripts == {"ok", "fail_first", "fail_always", "missing"}

\* SyncDBFrame.__init__, 63-170, after load_tasks_from_config: the widgets
InitWidgets ==
    /\ stop_requested = FALSE
    /\ btnRunAll = TRUE
    /\ btnStop = FALSE
    /\ taskBtns = [t \in Tasks |-> TRUE]
    /\ taskGauges = [t \in Tasks |-> 0]
    /\ taskSizers = [t \in Tasks |-> taskConfigs[t].synced]
    /\ taskFiles = [t \in Tasks |-> <<>>]
    /\ calls = <<>>
    /\ workers = [w \in 1..MaxWorkers |-> FreeWorker]

\* 83: load_tasks_from_config has read a config.yaml that holds taskConfigs
InitLoaded ==
    /\ frame = "shown"
    /\ cfgFile = [status |-> "ok", tasks |-> taskConfigs, raised |-> FALSE]

\* 77-80: the stage flags
InitFrame ==
    /\ InitWidgets
    /\ InitLoaded
    /\ run_scan = TRUE
    /\ run_copy = TRUE
    /\ run_evict = FALSE

\* config.yaml holds one task, with or without a 'synced' stamp; the evictor
\* follows one script per target path; the copy of a.txt may fail
Init ==
    /\ \E s \in {0, NoStamp} :
          taskConfigs = [t \in {1} |-> [synced |-> s, ignore |-> <<>>]]
    /\ srcTree = [t \in {1} |-> DeepTree]
    /\ tgtMtime = [t \in {1} |-> [p \in Files |-> NoFile]]
    /\ now = TicksPerSecond
    /\ \E ev \in [Files -> Scripts], cf \in {{}, {NameA}} :
          env = [evictor |-> ev, copy_fails |-> cf]
    /\ InitFrame

\* config.yaml holds two tasks; the source of the second is empty
InitTwo ==
    /\ taskConfigs = [t \in {1, 2} |-> [synced |-> 0, ignore |-> <<>>]]
    /\ srcTree = [t \in {1, 2} |-> IF t = 1 THEN DeepTree ELSE EmptyTree]
    /\ tgtMtime = [t \in {1, 2} |-> [p \in Files |-> NoFile]]
    /\ now = TicksPerSecond
    /\ env = [evictor |-> [p \in Files |-> "ok"], copy_fails |-> {}]
    /\ InitFrame

Next ==
    \/ on_launch_all_tasks
    \/ \E t \in Tasks : on_launch_task(t)
    \/ \E cb \in {"Scan", "Copy", "Evict"} : on_checkbox(cb)
    \/ on_stop_button_click
    \/ Deliver
    \/ \E w \in Slots : StartStep(w)
    \/ \E w \in Slots : ScanBegin(w)
    \/ \E w \in Slots : WalkStep(w)
    \/ \E w \in Slots : AfterScan(w)
    \/ \E w \in Slots : PipeBegin(w)
    \/ \E w \in Slots : PipeStep(w)
    \/ \E w \in Slots : RetryStep(w)
    \/ \E w \in Slots : AfterPipe(w)
    \/ \E w \in Slots : StampStep(w)

Spec == Init /\ [][Next]_vars

\* config.yaml holds one task whose source holds two files; the clock runs
\* and the source files are written while the units run
InitTouch ==
    /\ taskConfigs = [t \in {1} |-> [synced |-> 0, ignore |-> <<>>]]
    /\ srcTree = [t \in {1} |-> FlatTree]
    /\ tgtMtime = [t \in {1} |-> [p \in Files |-> NoFile]]
    /\ now = TicksPerSecond
    /\ env = [evictor |-> [p \in Files |-> "ok"], copy_fails |-> {}]
    /\ InitFrame

NextTouch ==
    \/ Tick
    \/ \E t \in Tasks, f \in Files : Touch(t, f)
    \/ on_launch_all_tasks
    \/ \E t \in Tasks : on_launch_task(t)
    \/ on_stop_button_click
    \/ Deliver
    \/ \E w \in Slots : StartStep(w)
    \/ \E w \in Slots : ScanBegin(w)
    \/ \E w \in Slots : WalkStep(w)
    \/ \E w \in Slots : AfterScan(w)
    \/ \E w \in Slots : PipeBegin(w)
    \/ \E w \in Slots : PipeStep(w)
    \/ \E w \in Slots : AfterPipe(w)
    \/ \E w \in Slots : StampStep(w)

SpecTouch == InitTouch /\ [][NextTouch]_vars

\* The clicks on the buttons, with the checkboxes left as they start: Scan and
\* Copy ticked, Evict not, so that no eviction fails and the retry loop of
\* 559 has nothing to iterate.
NextTwo ==
    \/ on_launch_all_tasks
    \/ \E t \in Tasks : on_launch_task(t)
    \/ on_stop_button_click
    \/ Deliver
    \/ \E w \in Slots : StartStep(w)
    \/ \E w \in Slots : ScanBegin(w)
    \/ \E w \in Slots : WalkStep(w)
    \/ \E w \in Slots : AfterScan(w)
    \/ \E w \in Slots : PipeBegin(w)
    \/ \E w \in Slots : PipeStep(w)
    \/ \E w \in Slots : AfterPipe(w)
    \/ \E w \in Slots : StampStep(w)

SpecTwo == InitTwo /\ [][NextTwo]_vars

\* config.yaml holds two tasks; the source of the first holds two files, that
\* of the second is empty; the clock is one tick before the next second
InitClock ==
    /\ taskConfigs = [t \in {1, 2} |-> [synced |-> 0, ignore |-> <<>>]]
    /\ srcTree = [t \in {1, 2} |-> IF t = 1 THEN FlatTree ELSE EmptyTree]
    /\ tgtMtime = [t \in {1, 2} |-> [p \in Files |-> NoFile]]
    /\ now = MaxSeconds * TicksPerSecond - 1
    /\ env = [evictor |-> [p \in Files |-> "ok"], copy_fails |-> {}]
    /\ InitFrame

\* the clicks on the buttons, while the clock runs
NextClock ==
    \/ Tick
    \/ on_launch_all_tasks
    \/ \E t \in Tasks : on_launch_task(t)
    \/ on_stop_button_click
    \/ Deliver
    \/ \E w \in Slots : StartStep(w)
    \/ \E w \in Slots : ScanBegin(w)
    \/ \E w \in Slots : WalkStep(w)
    \/ \E w \in Slots : AfterScan(w)
    \/ \E w \in Slots : PipeBegin(w)
    \/ \E w \in Slots : PipeStep(w)
    \/ \E w \in Slots : AfterPipe(w)
    \/ \E w \in Slots : StampStep(w)

SpecClock == InitClock /\ [][NextClock]_vars

\* config.yaml holds one task, with an 'ignore' list and a stamp of second 0
\* or 2; the user has unticked Copy (on_checkbox, 609-617), so that a unit
\* only scans and the stamp stays as it is
InitScan ==
    /\ \E s \in {0, 2}, c \in 1..Len(IgnoreConfigs) :
          taskConfigs = [t \in {1} |-> [synced |-> s, ignore |-> IgnoreConfigs[c]]]
    /\ \E ta \in FileTimes, ab \in FileTimes, listable \in BOOLEAN :
          srcTree = [t \in {1} |-> ScanTree(ta, ab, listable)]
    /\ tgtMtime = [t \in {1} |-> [p \in ScanFiles |-> NoFile]]
    /\ now = 3 * TicksPerSecond
    /\ env = [evictor |-> [p \in ScanFiles |-> "ok"], copy_fails |-> {}]
    /\ InitWidgets
    /\ InitLoaded
    /\ run_scan = TRUE
    /\ run_copy = FALSE
    /\ run_evict = FALSE

NextScan ==
    \/ on_launch_all_tasks
    \/ \E t \in Tasks : on_launch_task(t)
    \/ on_stop_button_click
    \/ Deliver
    \/ \E w \in Slots : StartStep(w)
    \/ \E w \in Slots : ScanBegin(w)
    \/ \E w \in Slots : WalkStep(w)
    \/ \E w \in Slots : AfterScan(w)

SpecScan == InitScan /\ [][NextScan]_vars

\* config.yaml holds one task with a stamp of second 0 or 2 and no 'ignore'
\* list; one entry of its source may raise when the scan looks it up; Copy is
\* unticked as in InitScan
InitFault ==
    /\ \E s \in {0, 2} :
          taskConfigs = [t \in {1} |-> [synced |-> s, ignore |-> <<>>]]
    /\ \E fault \in Faults : srcTree = [t \in {1} |-> FaultTree(fault)]
    /\ tgtMtime = [t \in {1} |-> [p \in ScanFiles |-> NoFile]]
    /\ now = 3 * TicksPerSecond
    /\ env = [evictor |-> [p \in ScanFiles |-> "ok"], copy_fails |-> {}]
    /\ InitWidgets
    /\ InitLoaded
    /\ run_scan = TRUE
    /\ run_copy = FALSE
    /\ run_evict = FALSE

SpecFault == InitFault /\ [][NextScan]_vars

\* config.yaml, which holds one task, may be missing, unparsable or
\* unwritable; the window is closed at any moment
InitCfg ==
    /\ \E st \in ConfigStates :
          cfgFile = [status |-> st, raised |-> FALSE,
                     tasks |-> [t \in {1} |-> [synced |-> 0, ignore |-> <<>>]]]
    /\ taskConfigs = load_tasks_from_config(cfgFile).tasks
    /\ frame = IF load_tasks_from_config(cfgFile).raised THEN "failed" ELSE "shown"
    /\ srcTree = [t \in Tasks |-> FlatTree]
    /\ tgtMtime = [t \in Tasks |-> [p \in Files |-> NoFile]]
    /\ now = TicksPerSecond
    /\ env = [evictor |-> [p \in Files |-> "ok"], copy_fails |-> {}]
    /\ InitWidgets
    /\ run_scan = TRUE
    /\ run_copy = TRUE
    /\ run_evict = FALSE

NextCfg ==
    \/ on_close
    \/ on_quit_button_click
    \/ on_launch_all_tasks
    \/ \E t \in Tasks : on_launch_task(t)
    \/ on_stop_button_click
    \/ Deliver
    \/ \E w \in Slots : StartStep(w)
    \/ \E w \in Slots : ScanBegin(w)
    \/ \E w \in Slots : WalkStep(w)
    \/ \E w \in Slots : AfterScan(w)
    \/ \E w \in Slots : PipeBegin(w)
    \/ \E w \in Slots : PipeStep(w)
    \/ \E w \in Slots : AfterPipe(w)
    \/ \E w \in Slots : StampStep(w)

SpecCfg == InitCfg /\ [][NextCfg]_vars

-----------------------------------------------------------------------------
(* Properties *)

Running(w) == workers[w].pc # "free"
UnitsOf(task) == {w \in Slots : workers[w].task = task}

\* C1: after any sequence of checkbox clicks the stage flags satisfy
\* run_evict => run_copy => run_scan.
C1_StageFlagOrder ==
    /\ run_evict => run_copy
    /\ run_copy => run_scan

\* C2: a step that changes a task's 'synced' stamp is the end of a run of that
\* task whose pipeline copied at least one file and did not return early on
\* the stop flag.
C2_StampOnlyAfterUncancelledCopy ==
    [][\A t \in Tasks :
         taskConfigs'[t].synced # taskConfigs[t].synced =>
            \E w \in UnitsOf(t) :
               /\ workers[w].pc = "stamp"
               /\ workers'[w].pc = "free"
               /\ workers[w].copied >= 1
               /\ ~workers[w].cut]_vars

\* C3: at most one worker thread runs for a task at any time.
C3_OneUnitPerTask ==
    \A t \in Tasks : Cardinality(UnitsOf(t)) <= 1

\* C4: while some launched unit has not finished, Run All is disabled and Stop
\* is enabled.
C4_GlobalButtonsWhileRunning ==
    (\E w \in Slots : Running(w)) => (~btnRunAll /\ btnStop)

\* C5: every unit that was started ends by having on_task_complete or
\* on_task_stopped delivered, so once no thread of a task runs and no callback
\* of the task is pending, the task's Run button is enabled and its gauge is 0.
PendingFor(task) ==
    \E i \in 1..Len(calls) : \E j \in 1..Len(calls[i]) : calls[i][j].task = task
C5_FinishedUnitReenables ==
    \A t \in Tasks :
        (UnitsOf(t) = {} /\ ~PendingFor(t)) => (taskBtns[t] /\ taskGauges[t] = 0)

\* C6: a unit that was running when Stop was clicked copies no further
\* candidate, whatever UI actions follow the click.
C6_StoppedUnitCopiesNoMore ==
    [][\A w \in Slots :
         (workers[w].stop_hit /\ workers'[w].pc # "free") =>
            workers'[w].copied <= workers[w].copied]_vars

\* the status text of the callbacks a worker step posted last
LastPosted(queue) ==
    LET batch == queue[Len(queue)] IN batch[Len(batch)].arg

\* C7: a unit that ends reports a cancelled status exactly when its scan or
\* its pipeline was interrupted, and a nothing-to-do status only when the
\* stage ran to its end.
C7_StatusMatchesOutcome ==
    [][\A w \in Slots :
         (workers[w].pc \in {"after_scan", "after_pipe", "stamp"}
             /\ workers'[w].pc = "free") =>
            LET status      == LastPosted(calls')
                interrupted == ~workers[w].walk_ok \/ workers[w].cut
            IN /\ (status \in {"ScanCancelled", "SyncCancelled"}) <=> interrupted
               /\ (status \in {"NoFiles", "NoneCopied"}) => ~interrupted]_vars

\* C8: a scan that polls the stop flag set, at whatever depth of the walk,
\* returns 0 with the task's candidate list empty; the unit then ends with
\* on_task_stopped, without a copy or evict stage and without a change of the
\* 'synced' stamp, even if the flag is cleared meanwhile.
C8_InterruptedScanUnwinds ==
    [][\A w \in Slots :
         LET me == workers[w]
             t  == me.task
         IN
         /\ (/\ me.pc = "walk"
             /\ stop_requested
             /\ (workers'[w].pc # "walk" \/ workers'[w].stack # me.stack)) =>
               /\ workers'[w].pc = "after_scan"
               /\ ~workers'[w].walk_ok
               /\ workers'[w].n = 0
               /\ workers'[w].stack = <<>>
               /\ taskFiles'[t] = <<>>
         /\ (/\ me.pc = "after_scan"
             /\ ~me.walk_ok
             /\ workers'[w].pc # "after_scan") =>
               /\ workers'[w].pc = "free"
               /\ calls'[Len(calls')][1] = Call("on_task_stopped", t, 0)
               /\ taskConfigs' = taskConfigs
               /\ tgtMtime' = tgtMtime]_vars

\* an interrupted scan has returned, and the stop flag has been cleared since
C8_Witness ==
    \E w \in Slots :
        /\ workers[w].pc = "after_scan"
        /\ ~workers[w].walk_ok
        /\ workers[w].n = 0
        /\ taskFiles[workers[w].task] = <<>>
        /\ ~stop_requested

\* C9: when the pipeline returns without cancellation and the evictor was
\* called for every file copied in the run: if it fails first and succeeds
\* second for each of them, evicted_count = copied_count; for a file for
\* which it fails both times, evicted_count < copied_count and the failure
\* of that file is logged exactly twice.
C9_EvictCounts ==
    \A w \in Slots :
        LET me == workers[w] IN
        (/\ me.pc = "after_pipe"
         /\ ~me.cut
         /\ \A p \in me.fresh : me.evict_calls[p] >= 1) =>
           /\ (\A p \in me.fresh : env.evictor[p] = "fail_first") =>
                 me.evicted = me.copied
           /\ \A p \in me.fresh :
                 env.evictor[p] = "fail_always" =>
                    (me.evicted < me.copied /\ me.evict_errors[p] = 2)

\* two files copied, one evicted at the retry, one failed twice
C9_Witness ==
    \E w \in Slots :
        LET me == workers[w] IN
        /\ me.pc = "after_pipe"
        /\ ~me.cut
        /\ me.copied = 2
        /\ me.evicted = 1
        /\ \E p, q \in me.fresh :
              /\ env.evictor[p] = "fail_first" /\ me.evict_calls[p] = 2
              /\ env.evictor[q] = "fail_always" /\ me.evict_errors[q] = 2

\* C10 as stated: when the pipeline returns, every path whose first eviction
\* failed has been retried exactly once.
C10_RetriedExactlyOnce ==
    \A w \in Slots :
        LET me == workers[w] IN
        \A p \in DOMAIN me.evict_calls :
            (me.pc = "after_pipe" /\ me.evict_errors[p] >= 1) =>
                me.evict_calls[p] = 2

\* C10 amended: the evictor is called at most twice for a path and only for a
\* path copied in this run; a second call is made only in the retry pass,
\* after the main loop has run to its end, and only for a path whose first
\* eviction failed; when the pipeline returns, such a path has been retried
\* exactly once if the main loop ran to its end, and not at all if the loop
\* returned on the stop flag.
C10_RetriedOnceUnlessCut ==
    \A w \in Slots :
        LET me == workers[w] IN
        \A p \in DOMAIN me.evict_calls :
            /\ me.evict_calls[p] <= 2
            /\ me.evict_calls[p] >= 1 => p \in me.fresh
            /\ me.evict_calls[p] = 2 =>
                  /\ me.pc \in {"retry_loop", "after_pipe", "stamp"}
                  /\ ~me.cut
                  /\ me.evict_errors[p] >= 1
            /\ (me.pc = "after_pipe" /\ me.evict_errors[p] >= 1) =>
                  me.evict_calls[p] = IF me.cut THEN 1 ELSE 2

\* the main loop returned on the stop flag after an eviction had failed
C10_Witness ==
    \E w \in Slots :
        LET me == workers[w] IN
        /\ me.pc = "after_pipe"
        /\ me.cut
        /\ \E p \in me.fresh : me.evict_errors[p] = 1 /\ me.evict_calls[p] = 1

\* the thread of slot w took a step of run_task_logic
Stepped(w) ==
    \/ workers'[w].pc # workers[w].pc
    \/ workers'[w].stack # workers[w].stack
    \/ workers'[w].idx # workers[w].idx
    \/ workers'[w].ridx # workers[w].ridx

\* C11: an iteration of the main loop copies its candidate iff the target is
\* absent or older than the candidate's source_mtime (and the copy does not
\* raise); the copy gives the target the source's modification time; and
\* while every candidate of the list has a target with the candidate's own
\* modification time, the pipeline copies nothing.
C11_CopyDecision ==
    [][\A w \in Slots :
         LET me    == workers[w]
             after == workers'[w]
             t     == me.task
             list  == CurList(me)
             path  == list[me.idx][1]
             smt   == list[me.idx][2]
             stale == tgtMtime[t][path] = NoFile \/ smt > tgtMtime[t][path]
         IN
         /\ (me.pc = "pipe_loop" /\ ~stop_requested /\ Stepped(w)) =>
               /\ (after.copied = me.copied + 1) <=>
                     (stale /\ path \notin env.copy_fails)
               /\ after.copied \in {me.copied, me.copied + 1}
               /\ after.copied = me.copied => tgtMtime' = tgtMtime
               /\ after.copied = me.copied + 1 =>
                     tgtMtime'[t][path] = srcTree[t][path].mtime
         /\ (/\ me.pc = "pipe_loop"
             /\ \A i \in 1..Len(list) : tgtMtime[t][list[i][1]] = list[i][2]) =>
               after.copied = me.copied]_vars

\* a second run over the same two candidates has returned and copied nothing
C11_Witness ==
    \E w \in Slots :
        LET me == workers[w] IN
        /\ me.pc = "after_pipe"
        /\ ~me.cut
        /\ me.n = 2
        /\ me.copied = 0
        /\ \A i \in 1..Len(taskFiles[me.task]) :
              tgtMtime[me.task][taskFiles[me.task][i][1]] = taskFiles[me.task][i][2]

\* C13: the scan of a task whose 'synced' value is absent or empty goes on to
\* walk the source (or returns), as it does for a task that has a stamp.
C13_NeverSyncedScans ==
    [][\A w \in Slots :
         (/\ workers[w].pc = "scan_begin"
          /\ taskConfigs[workers[w].task].synced = NoStamp
          /\ Stepped(w)) =>
            workers'[w].pc \in {"walk", "after_scan"}]_vars

\* C15: what a unit does is decided by the stage flags as they were when it
\* was launched: it scans only if scan was on, runs the pipeline only if copy
\* was on, and calls the evictor only if evict was on.
C15_StagesAsAtLaunch ==
    \A w \in Slots :
        LET me == workers[w] IN
        /\ me.pc \in {"scan_begin", "walk", "after_scan"} => me.at_launch.scan
        /\ me.pc \in {"pipe_begin", "pipe_loop", "retry_loop", "after_pipe",
                    "stamp"} =>
              me.at_launch.copy
        /\ (\E p \in DOMAIN me.evict_calls : me.evict_calls[p] >= 1) =>
              me.at_launch.evict

\* C18: while the stop flag is set, the retry pass does not invoke the evictor.
C18_StopEndsRetryPass ==
    [][\A w \in Slots :
         (workers[w].pc = "retry_loop" /\ stop_requested /\ Stepped(w)) =>
            workers'[w].evict_calls = workers[w].evict_calls]_vars

\* C19: an iteration of the main loop whose copy raises leaves copied_count,
\* the retry list and the target as they are, does not call the evictor, and
\* the loop goes on with the next candidate, if there is one.
C19_CopyErrorContinues ==
    [][\A w \in Slots :
         LET me    == workers[w]
             after == workers'[w]
             t     == me.task
             list  == CurList(me)
             path  == list[me.idx][1]
             smt   == list[me.idx][2]
             stale == tgtMtime[t][path] = NoFile \/ smt > tgtMtime[t][path]
         IN
         (/\ me.pc = "pipe_loop"
          /\ ~stop_requested
          /\ Stepped(w)
          /\ stale
          /\ path \in env.copy_fails) =>
            /\ after.copied = me.copied
            /\ after.retry = me.retry
            /\ after.evict_calls = me.evict_calls
            /\ tgtMtime' = tgtMtime
            /\ ~after.cut
            /\ after.idx = me.idx + 1
            /\ after.pc = IF me.idx < Len(list) THEN "pipe_loop" ELSE "after_pipe"]_vars

\* the copy of the first candidate raised and the second was copied
C19_Witness ==
    \E w \in Slots :
        LET me == workers[w] IN
        /\ me.pc = "after_pipe"
        /\ ~me.cut
        /\ NameA \in env.copy_fails
        /\ me.n = 2
        /\ me.copied = 1
        /\ me.fresh = {NameB}

\* the regular files under dir that a walk can reach: through directories
\* that are not ignored and can be listed, and not ignored themselves
RECURSIVE Reachable(_, _, _)
Reachable(tree, cfg, dir) ==
    UNION { LET nm == tree[dir].entries[i] IN
            IF should_ignore(cfg, nm) THEN {}
            ELSE IF tree[nm].mode = "file" THEN {nm}
            ELSE IF tree[nm].mode = "dir" /\ tree[nm].readable
                 THEN Reachable(tree, cfg, nm)
            ELSE {}
          : i \in 1..Len(tree[dir].entries) }

\* those of them that changed after the task's stamp
Newer(task) ==
    LET tree == srcTree[task]
        watermark == ParseTime(taskConfigs[task].synced)
    IN { f \in Reachable(tree, taskConfigs[task].ignore, Root) :
            tree[f].mtime > watermark \/ tree[f].ctime > watermark }

NoTraversalError(task) ==
    \A nm \in DOMAIN srcTree[task] :
        srcTree[task][nm].readable /\ srcTree[task][nm].mode # "gone"

\* the candidate list holds exactly the files of 'expected', once each, each
\* with its modification time
ListIs(task, expected) ==
    LET list == taskFiles[task] IN
    /\ {list[i][1] : i \in 1..Len(list)} = expected
    /\ Len(list) = Cardinality(expected)
    /\ \A i \in 1..Len(list) : list[i][2] = srcTree[task][list[i][1]].mtime

\* C12: when a scan that was not cancelled and met no traversal error has
\* returned, the candidate list is exactly the set of regular files reachable
\* through non-ignored directories, not ignored themselves, whose mtime or
\* ctime is greater than the watermark -- the same set at every such scan
\* while the tree and the stamp stay as they are.
C12_ScanCandidates ==
    \A w \in Slots :
        LET me == workers[w] IN
        (me.pc = "after_scan" /\ me.walk_ok /\ NoTraversalError(me.task)) =>
            /\ ListIs(me.task, Newer(me.task))
            /\ me.n = Cardinality(Newer(me.task))

\* a scan has returned one candidate and left out a file that is not ignored
\* but is as old as the stamp
C12_Witness ==
    \E w \in Slots :
        LET me == workers[w] IN
        /\ me.pc = "after_scan" /\ me.walk_ok /\ NoTraversalError(me.task)
        /\ me.n = 1
        /\ \E f \in ScanFiles :
              /\ ~should_ignore(taskConfigs[me.task].ignore, f)
              /\ srcTree[me.task][f].mtime = ParseTime(taskConfigs[me.task].synced)
              /\ f \notin Newer(me.task)

\* the same letter, in upper or lower case
SameLetter(c, d) ==
    \/ c = d
    \/ {c, d} \in {{"a", "A"}, {"b", "B"}, {"s", "S"}, {"t", "T"}}
PrefixNoCase(pat, name) ==
    /\ Len(pat) <= Len(name)
    /\ \A i \in 1..Len(pat) : SameLetter(pat[i], name[i])
SuffixNoCase(pat, name) ==
    /\ Len(pat) <= Len(name)
    /\ \A i \in 1..Len(pat) : SameLetter(pat[i], name[Len(name) - Len(pat) + i])

\* C14: should_ignore(name) is true iff some rule has a startswith pattern
\* that is a prefix of name, or an endswith pattern that is a suffix of name,
\* letters compared without regard to case; it is false for an empty rule
\* list.
C14_IgnoreRule ==
    \A t \in Tasks : \A name \in DOMAIN srcTree[t] :
        LET cfg == taskConfigs[t].ignore IN
        should_ignore(cfg, name) <=>
            \E r \in 1..Len(cfg) :
               \/ \E p \in 1..Len(RuleGet(cfg[r], "startswith")) :
                     PrefixNoCase(RuleGet(cfg[r], "startswith")[p], name)
               \/ \E p \in 1..Len(RuleGet(cfg[r], "endswith")) :
                     SuffixNoCase(RuleGet(cfg[r], "endswith")[p], name)

\* a scan has left out Ta, newer than the stamp, for the prefix "t" alone
C14_Witness ==
    \E w \in Slots :
        LET me  == workers[w]
            cfg == taskConfigs[me.task].ignore
        IN
        /\ me.pc = "after_scan" /\ me.walk_ok
        /\ Len(cfg) = 1
        /\ RuleGet(cfg[1], "startswith") = << <<"t">> >>
        /\ RuleGet(cfg[1], "endswith") = <<>>
        /\ srcTree[me.task][NameTa].mtime > ParseTime(taskConfigs[me.task].synced)
        /\ \A i \in 1..Len(taskFiles[me.task]) : taskFiles[me.task][i][1] # NameTa

\* listing the subdirectory raises, and nothing else does
ListingErrorOnly(task) ==
    /\ ~srcTree[task][NameSub].readable
    /\ \A nm \in DOMAIN srcTree[task] \ {NameSub} :
          srcTree[task][nm].readable /\ srcTree[task][nm].mode # "gone"

\* C20: when listing a subdirectory raises, the walk goes on at the level
\* above with the entries after that subdirectory; the scan returns as
\* cancelled only if Stop was clicked, and otherwise returns the candidates
\* found outside the subdirectory.
C20_ListingErrorSkipsSubtree ==
    [][\A w \in Slots :
         LET me    == workers[w]
             after == workers'[w]
             t     == me.task
             top   == me.stack[Len(me.stack)]
             name  == srcTree[t][top.dir].entries[top.i]
         IN
         /\ (/\ me.pc = "walk" /\ ~stop_requested /\ Stepped(w)
             /\ srcTree[t][name].mode = "dir"
             /\ ~srcTree[t][name].readable) =>
               /\ taskFiles'[t] = taskFiles[t]
               /\ IF top.i < Len(srcTree[t][top.dir].entries)
                  THEN /\ after.pc = "walk"
                       /\ after.stack = [me.stack EXCEPT ![Len(me.stack)].i = top.i + 1]
                  ELSE after.pc = "after_scan" => after.walk_ok
         /\ (me.pc = "after_scan" /\ ListingErrorOnly(t)) =>
               /\ ~me.walk_ok => me.stop_hit
               /\ me.walk_ok =>
                     /\ ListIs(t, Newer(t))
                     /\ me.n = Cardinality(Newer(t))]_vars

\* the subdirectory could not be listed and the scan has returned the file
\* that comes after it
C20_Witness ==
    \E w \in Slots :
        LET me == workers[w] IN
        /\ me.pc = "after_scan" /\ me.walk_ok
        /\ ListingErrorOnly(me.task)
        /\ me.n = 1
        /\ taskFiles[me.task] = << <<NameTa, srcTree[me.task][NameTa].mtime>> >>

\* C17: load_tasks_from_config never raises, and leaves no task when the
\* file is missing or unparsable; save_tasks_to_config raises when the file
\* is missing or unwritable, so that on_close does not reach Destroy(), and
\* leaves the file as it was (a missing file stays missing); otherwise the
\* file holds the tasks when the frame is destroyed.
C17_RegistryErrors ==
    /\ frame # "failed"
    /\ cfgFile.status \in {"missing", "unparsable"} => taskConfigs = <<>>
    /\ cfgFile.status \in {"missing", "unwritable"} => frame # "destroyed"
    /\ cfgFile.raised =>
          /\ cfgFile.status \in {"missing", "unwritable"}
          /\ cfgFile.tasks = [t \in {1} |-> [synced |-> 0, ignore |-> <<>>]]
    /\ frame = "destroyed" => (~cfgFile.raised /\ cfgFile.tasks = taskConfigs)

\* the file is missing: no task was loaded, and closing the window has raised
C17_Witness ==
    /\ cfgFile.status = "missing"
    /\ taskConfigs = <<>>
    /\ cfgFile.raised
    /\ frame = "shown"
    /\ stop_requested

\* C16: no step makes a task's 'synced' stamp smaller.
C16_StampNeverRegresses ==
    [][\A t \in Tasks : taskConfigs'[t].synced >= taskConfigs[t].synced]_vars

\* the unit of slot w is past its scan and has not run the loop of 508: it
\* has the scan's count in hand (337), or sync_to_target_and_evict has
\* returned at 496
NotInPipeline(me) ==
    \/ me.pc = "after_scan"
    \/ me.pc = "after_pipe" /\ me.idx = 0

\* C21: a unit goes from its scan into the loop of the copy/evict pipeline
\* only if the scan returned at least one candidate and copy is enabled; a
\* unit that ends after its scan without the pipeline, and without a stop
\* request, ends with the status "No files to sync" or "Scan completed", and
\* its last step changes neither the target tree nor a 'synced' stamp.
C21_PipelineOnlyWithCandidates ==
    [][\A w \in Slots :
         LET me    == workers[w]
             after == workers'[w]
         IN
         /\ (me.pc = "pipe_begin" /\ after.idx >= 1) =>
               (me.n >= 1 /\ run_copy)
         /\ (NotInPipeline(me) /\ after.pc = "free" /\ ~stop_requested) =>
               /\ LastPosted(calls') \in {"NoFiles", "ScanCompleted"}
               /\ tgtMtime' = tgtMtime
               /\ taskConfigs' = taskConfigs]_vars

\* the pending callbacks, oldest first
RECURSIVE Flat(_)
Flat(queue) == IF queue = <<>> THEN <<>> ELSE Head(queue) \o Flat(Tail(queue))

\* C22: a step of a worker thread changes no widget (buttons, gauges, the
\* labels of the static boxes): it only appends callbacks to the pending
\* ones; and the pending callbacks are run oldest first.
C22_WidgetsOnMainThreadOnly ==
    [][/\ \A w \in Slots :
            (workers[w].pc # "free" /\ Stepped(w)) =>
               UNCHANGED <<btnVars, taskGauges, taskSizers>>
       /\ \/ Len(Flat(calls')) >= Len(Flat(calls))
             /\ SubSeq(Flat(calls'), 1, Len(Flat(calls))) = Flat(calls)
          \/ Flat(calls') = Tail(Flat(calls))]_vars

\* the unit of slot w is in sync_to_target_and_evict, past 507, or has just
\* returned from it
InPipeline(me) ==
    me.pc \in {"pipe_loop", "retry_loop", "after_pipe", "stamp"} /\ me.idx >= 1

\* the paths counted in evicted_count: those whose latest eviction succeeded
EvictedPaths(me) ==
    {p \in DOMAIN me.evict_calls :
        /\ me.evict_calls[p] >= 1
        /\ EvictResult(env.evictor[p], me.evict_calls[p] - 1) = "ok"}

\* the entries of evict_retry the loop of 559 has not yet taken
PendingRetry(me) ==
    {me.retry[i] : i \in (IF me.ridx = 0 THEN 1 ELSE me.ridx)..Len(me.retry)}

Visits(w, name) ==
    LET me   == workers[w]
        top  == me.stack[Len(me.stack)]
        node == srcTree[me.task][name]
    IN /\ me.pc = "walk"
       /\ ~stop_requested
       /\ Stepped(w)
       /\ Entries(me.task, top.dir)[top.i] = name
       /\ node.mode = "file"
       /\ node.readable
       /\ ~should_ignore(taskConfigs[me.task].ignore, name)

\* the candidate list of the task holds the file of this name
Listed(files, name) == \E i \in 1..Len(files) : files[i][1] = name

\* C24: a source file written after a scan looked at it and before the
\* 'synced' stamp of a run was stored is put on the candidate list by the
\* next scan that looks at it.
C24_ChangeBeforeStampRescanned ==
    [][\A w \in Slots : \A f \in Files :
         (Visits(w, f) /\ srcTree[workers[w].task][f].note = "owed_changed") =>
            Listed(taskFiles'[workers[w].task], f)]_vars

\* C25: a candidate whose copy raised in a run that copied another file and
\* stored the 'synced' stamp, and that was not written since, is put on the
\* candidate list by the next scan that looks at it.
C25_FailedCopyRescanned ==
    [][\A w \in Slots : \A f \in Files :
         (Visits(w, f) /\ srcTree[workers[w].task][f].note = "owed_failed") =>
            Listed(taskFiles'[workers[w].task], f)]_vars

\* looking up this entry raises: os.lstat of the entry (435), or os.stat of a
\* regular file that is not ignored (465)
LookupRaises(task, name) ==
    LET node == srcTree[task][name] IN
    \/ node.mode = "gone"
    \/ /\ node.mode = "file"
       /\ ~node.readable
       /\ ~should_ignore(taskConfigs[task].ignore, name)

\* C26: when looking up a directory entry raises, the walk goes on with the
\* entry after it in the same directory; and a scan that returns uncancelled
\* lists every reachable file that changed after the stamp and whose lookup
\* does not raise.
C26_EntryErrorSkipsEntryOnly ==
    [][\A w \in Slots :
         LET me    == workers[w]
             after == workers'[w]
             t     == me.task
             depth == Len(me.stack)
             top   == me.stack[depth]
             name  == Entries(t, top.dir)[top.i]
         IN
         /\ (/\ me.pc = "walk" /\ ~stop_requested /\ Stepped(w)
             /\ LookupRaises(t, name)
             /\ top.i < Len(Entries(t, top.dir))) =>
               /\ after.pc = "walk"
               /\ after.stack = [me.stack EXCEPT ![depth].i = top.i + 1]
         /\ (me.pc = "after_scan" /\ me.walk_ok) =>
               \A f \in Newer(t) :
                  ~LookupRaises(t, f) => Listed(taskFiles[t], f)]_vars

====
